---- MODULE Spec2Model ----
(***************************************************************************)
(* Marching Cubes orchestrator (src/src/marching_cubes.ts) as a state      *)
(* machine: the host side of MarchingCubes.computeSurface, cut at its      *)
(* awaits, and the device queue that executes the submitted command        *)
(* buffers in order.  ExclusiveScan, StreamCompactIDs, PushConstants, the  *)
(* Volume class, the case table and the WGSL kernels are not part of the   *)
(* source files at hand; they are modelled from the design document and    *)
(* marked so where they are defined.                                       *)
(***************************************************************************)
EXTENDS Integers, Sequences, FiniteSets, TLC

\* ---------------------------------------------------------------- bounds
\* Number of computeSurface calls issued on one MarchingCubes instance.
MaxCalls == 2
\* Number of hot samples (one-voxel volume) or hot x-slabs (three-voxel
\* volume) of the scalar field.
MaxHot == 2

\* ------------------------------------------------------ program constants
\* Workgroup shape assumed by the classification dispatch (lines 317-319).
MarkGroupX == 4
MarkGroupY == 4
MarkGroupZ == 2
\* Invocations per workgroup of the vertex-count dispatch (line 454).
CountGroupSize == 32
\* Word of #volumeInfo that holds the isovalue: byte 16 (line 310).
IsovalueByteOffset == 16
\* Bytes of the #volumeInfo block: 8 * 4 (line 85).
VolumeInfoBytes == 32
\* Bytes bound of the push constant buffer per dispatch (line 462).
PushConstantBindSize == 12
\* arrayStride of the vertex buffer layout of the render pipeline, 4 * 4,
\* and the bytes of its float32x4 attribute (app.ts, lines 49-51).
VertexStride == 16
VertexAttributeBytes == 16
\* Block size of the scan primitive (exclusive_scan.ts, not at hand).
ScanBlockSize == 2
\* Workgroups one physical dispatch may cover (push_constant_builder.ts, not at hand).
MaxDispatchGroups == 2
\* Alignment of a dynamic uniform offset (push_constant_builder.ts, not at hand).
PushConstantStride == 256
\* device.limits.maxBufferSize: the largest buffer createBuffer allocates.
\* The value is scaled down to the size of the case table, the largest
\* buffer MarchingCubes.create allocates.
maxBufferSize == 256 * 16 * 4

\* Dims of the sample grids the model is run on: the one-voxel volume, and
\* a volume of three voxels (more than one scan block, padded to four).
PointVolumeDims == << 2, 2, 2 >>
SlabVolumeDims == << 4, 2, 2 >>
\* A volume that is one sample thick.
FlatVolumeDims == << 1, 2, 2 >>
\* The long volume: a row of 130 voxels, and the extents of its hot part.
LargeVolumeDims == << 131, 2, 2 >>
LargeExtents == { 32, 64, 66, 130 }
\* Isovalues passed to computeSurface; samples are 1 (cold) or 3 (hot).
\* The last one, 2^24 + 1, has no 32-bit float representation.
Isovalues == {0, 2, 4, 16777217}

\* ---------------------------------------------------------------- helpers
Min(a, b) == IF a < b THEN a ELSE b

CeilDiv(a, b) == (a + b - 1) \div b

RECURSIVE SumBetween(_, _, _)
\* Sum of s[a..b], by halving the range.
SumBetween(s, a, b) ==
    IF a > b THEN 0
    ELSE IF a = b THEN s[a]
    ELSE SumBetween(s, a, (a + b) \div 2) + SumBetween(s, (a + b) \div 2 + 1, b)

\* Sum of the first k elements of s.
SeqSum(s, k) == SumBetween(s, 1, k)

\* new Float32Array(...).set([x]) (line 306): the number is stored rounded
\* to the nearest 32-bit float, ties to even.  Numbers up to 2^24 in
\* magnitude that are integers are stored as they are; between 2^24 and
\* 2^25 the floats are the even integers.
Float32(x) ==
    IF x <= 2^24 THEN x
    ELSE IF x % 2 = 0 THEN x
    ELSE IF (x - 1) % 4 = 0 THEN x - 1 ELSE x + 1

\* A zero-initialised run of m words (a fresh GPUBuffer reads as zeros).
ZeroSeq(m) == [i \in 1..m |-> 0]

\* ------------------------------------------------------------- the volume
\* Volume.dualGridDims = dims - 1 (volume.ts, not at hand).
dualGridDims(dims) == << dims[1] - 1, dims[2] - 1, dims[3] - 1 >>

\* Volume.dualGridNumVoxels (volume.ts, not at hand).
dualGridNumVoxels(dims) ==
    dualGridDims(dims)[1] * dualGridDims(dims)[2] * dualGridDims(dims)[3]

NumSamples(dims) == dims[1] * dims[2] * dims[3]

\* Flat index of sample (x, y, z), 0-based.
SampleIndex(dims, x, y, z) == x + dims[1] * (y + dims[2] * z)

\* The scalar at sample (x, y, z) of the volume texture.
SampleValue(vol, x, y, z) ==
    IF SampleIndex(vol.dims, x, y, z) \in vol.hot THEN 3 ELSE 1

\* The voxel coordinates of a flat index.
VoxelCoord(dims, i) ==
    LET dg == dualGridDims(dims)
    IN  << i % dg[1], (i \div dg[1]) % dg[2], i \div (dg[1] * dg[2]) >>

Corners == { <<dx, dy, dz>> : dx \in 0..1, dy \in 0..1, dz \in 0..1 }

\* The corner sample c of voxel i; the kernels take the grid's dims from
\* the volume-info block (`dims`) and the samples from the texture.
CornerValue(vol, dims, i, c) ==
    LET p == VoxelCoord(dims, i)
    IN  SampleValue(vol, p[1] + c[1], p[2] + c[2], p[3] + c[3])

\* mark_active_voxel.wgsl (not at hand): the flag is 1 iff at least one
\* corner is above and at least one is below the isovalue.
VoxelActive(vol, dims, i, iso) ==
    /\ \E c \in Corners : CornerValue(vol, dims, i, c) > iso
    /\ \E c \in Corners : CornerValue(vol, dims, i, c) < iso

\* compute_num_verts.wgsl (not at hand): the corners whose value is >= isovalue
\* (the set of bits of the 8-bit configuration).
CornerConfig(vol, dims, i, iso) ==
    { c \in Corners : CornerValue(vol, dims, i, c) >= iso }

\* mc_case_table.ts (not at hand): number of vertices of a configuration.  The
\* table's data is not available; the count is represented by a function
\* with the documented shape: 0 for the empty and the full configuration,
\* otherwise a multiple of 3 between 3 and 15.
CaseVertexCount(config) ==
    LET k == Cardinality(config)
    IN  IF k = 0 \/ k = 8 THEN 0 ELSE 3 * Min(k, 8 - k)

\* --------------------------------------------------------- exclusive scan
\* ExclusiveScan.getAlignedSize (exclusive_scan.ts, not at hand): the smallest
\* multiple of the block size that is >= n.
getAlignedSize(n) == CeilDiv(n, ScanBlockSize) * ScanBlockSize

\* Sum of s[a..b].
RangeSum(s, a, b) == SumBetween(s, a, b)

BlockOf(i) == CeilDiv(i, ScanBlockSize)

BlockStart(b) == (b - 1) * ScanBlockSize + 1

RECURSIVE BlockScan(_)
\* The block-level scan of the design document: every block is scanned
\* locally and yields its total, the block totals are scanned by the same
\* primitive, and each block's base is added to its elements.
BlockScan(s) ==
    LET L == Len(s)
        nb == CeilDiv(L, ScanBlockSize)
        local(i) == RangeSum(s, BlockStart(BlockOf(i)), i - 1)
        totals == [b \in 1..getAlignedSize(nb) |->
                     IF b <= nb
                     THEN RangeSum(s, BlockStart(b), Min(L, b * ScanBlockSize))
                     ELSE 0]
    IN  IF nb <= 1
        THEN [i \in 1..L |-> local(i)]
        ELSE LET bases == BlockScan(totals)
             IN  [i \in 1..L |-> local(i) + bases[BlockOf(i)]]

\* ExclusiveScan.scan(buffer, n), the buffer after the call: the first
\* align(n) elements are scanned in place.
ScanData(data, n) ==
    LET m == Min(getAlignedSize(n), Len(data))
        scanned == BlockScan(SubSeq(data, 1, m))
    IN  [i \in 1..Len(data) |-> IF i <= m THEN scanned[i] ELSE data[i]]

\* ExclusiveScan.scan(buffer, n), the returned total: the scanned result's
\* last valid entry plus that element's original value; 0 for n = 0.
ScanTotal(data, n) ==
    IF n = 0 \/ n > Len(data) THEN 0 ELSE ScanData(data, n)[n] + data[n]

\* ------------------------------------------------------ stream compaction
\* StreamCompactIDs.compactActiveIDs (stream_compact_ids.ts, not at hand):
\* the invocations i < n with a nonzero flag that write slot k (0-based) of
\* the output.
CompactWriters(flags, offsets, n, k) ==
    { i \in 0..(n - 1) : flags[i + 1] # 0 /\ offsets[i + 1] = k }

\* The contents the output may have after the scatter: a slot written by
\* several invocations holds any one of their values (no ordering among
\* work-items); a slot nobody writes is untouched; a write outside the
\* output is dropped.
CompactOutcomes(flags, offsets, out, n) ==
    IF \A k \in 1..Len(out) :
           Cardinality(CompactWriters(flags, offsets, n, k - 1)) <= 1
    THEN \* no slot is written twice: the outcome is determined
         { [ k \in 1..Len(out) |->
               IF CompactWriters(flags, offsets, n, k - 1) = {}
               THEN out[k]
               ELSE CHOOSE i \in CompactWriters(flags, offsets, n, k - 1) : TRUE ] }
    ELSE { d \in [1..Len(out) -> (0..(n - 1)) \cup { out[k] : k \in 1..Len(out) }] :
             \A k \in 1..Len(out) :
                 IF CompactWriters(flags, offsets, n, k - 1) = {}
                 THEN d[k] = out[k]
                 ELSE d[k] \in CompactWriters(flags, offsets, n, k - 1) }

\* ------------------------------------------------------- dispatch chunker
\* PushConstants.numDispatches (push_constant_builder.ts, not at hand).
numDispatches(totalGroups) == CeilDiv(totalGroups, MaxDispatchGroups)

\* PushConstants.dispatchSize(i): all chunks hold the cap but the last.
dispatchSize(totalGroups, i) ==
    Min(MaxDispatchGroups, totalGroups - i * MaxDispatchGroups)

\* PushConstants.pushConstantsBuffer.size: one stride per chunk.
pushConstantsBufferSize(totalGroups) ==
    numDispatches(totalGroups) * PushConstantStride

\* The control word PushConstants stores in the parameter block at a byte
\* offset: the first workgroup of that chunk.
ChunkBase(offset) == (offset \div PushConstantStride) * MaxDispatchGroups

\* Variant of ChunkOffset: every chunk is bound at the start of the buffer.
ChunkOffsetAtZero(i) == 0
\* The dynamic offset dispatch i is bound at (line 474).
ChunkOffset(i) == i * PushConstantStride

\* The chunk loop of computeVertexOffsets (lines 473-476): one dispatch per
\* chunk, bound at its offset of the parameter buffer.
ChunkLoop(totalGroups) ==
    [ k \in 1..numDispatches(totalGroups) |->
        [ offset |-> ChunkOffset(k - 1), groups |-> dispatchSize(totalGroups, k - 1) ] ]

\* The number of invocations of the dispatches whose global index
\* (chunkBase + workgroup) * CountGroupSize + local is `item`.
CountHits(dispatches, item) ==
    Cardinality({ k \in 1..Len(dispatches) :
        LET g == item \div CountGroupSize - ChunkBase(dispatches[k].offset)
        IN  g >= 0 /\ g < dispatches[k].groups })

\* ------------------------------------------------------------------ state
VARIABLES
    volume,        \* the Volume: [dims, hot], immutable once loaded
    buffers,       \* the device's GPUBuffers, by id: [size, data, owner, users]
    queue,         \* command buffers submitted to device.queue, not yet executed
    calls,         \* the computeSurface calls issued so far, in order
    deviceErrors   \* validation errors the device has raised: <<call, place>>

vars == << volume, buffers, queue, calls, deviceErrors >>

\* Buffers of the MarchingCubes instance, created once in create().
triCaseTable == 1
volumeInfo == 2
voxelActive == 3

\* device.createBuffer: a zero-initialised buffer of `size` bytes owned by
\* call `c` (0: created by MarchingCubes.create).  `destroyed` is set by
\* GPUBuffer.destroy, which releases the buffer's memory.  A size above the
\* device's limit yields an invalid buffer and a validation error on the
\* device; createBuffer does not throw.
NewBuffer(size, c) ==
    [size |-> size, data |-> ZeroSeq(size \div 4), owner |-> c, users |-> {},
     destroyed |-> FALSE, valid |-> size <= maxBufferSize]

\* The buffers one computeSurface call creates, in the order of creation.
Roles ==
    << "upload", "offsets", "ids", "debugActive", "debugOffset", "debugBuf",
       "vertexOffsets", "pushConstants", "vertices" >>

\* Variant of BufferId: the buffers of the first call are kept and used
\* again by the later calls.
BufferIdReused(c, role) ==
    voxelActive + (CHOOSE k \in 1..Len(Roles) : Roles[k] = role)
\* The identity of the buffer call c creates in `role`: every createBuffer
\* yields a new object, distinct from every other buffer.
BufferId(c, role) ==
    voxelActive + (c - 1) * Len(Roles) + (CHOOSE k \in 1..Len(Roles) : Roles[k] = role)

\* The word of #volumeInfo the kernels read the isovalue from.
IsovalueWord == IsovalueByteOffset \div 4 + 1

\* The dims the kernels read from #volumeInfo.
InfoDims == << buffers[volumeInfo].data[1], buffers[volumeInfo].data[2],
               buffers[volumeInfo].data[3] >>

InFlight(c) == calls[c].pc # "Done"

\* The samples of the grid `dims` whose x coordinate is in X.
SlabSamples(dims, X) ==
    { s \in 0..(NumSamples(dims) - 1) : (s % dims[1]) \in X }

\* The volumes the model is run on: on the one-voxel grid every field with
\* at most MaxHot hot samples; on the three-voxel grid every field that is
\* constant across each x-slab, with at most MaxHot hot slabs.
Volumes ==
    { [dims |-> PointVolumeDims, hot |-> h] :
        h \in { g \in SUBSET (0..(NumSamples(PointVolumeDims) - 1)) :
                  Cardinality(g) <= MaxHot } }
    \cup
    { [dims |-> SlabVolumeDims, hot |-> SlabSamples(SlabVolumeDims, X)] :
        X \in { Y \in SUBSET (0..(SlabVolumeDims[1] - 1)) : Cardinality(Y) <= MaxHot } }

\* Flat volumes: one sample thick along x, so that the dual grid has no
\* voxel (dualGridDims[0] = 0).
FlatVolumes ==
    { [dims |-> FlatVolumeDims, hot |-> h] :
        h \in { g \in SUBSET (0..(NumSamples(FlatVolumeDims) - 1)) :
                  Cardinality(g) <= MaxHot } }

\* Long volumes: a row of LargeVoxels voxels whose odd x-slabs below an
\* extent are hot.  With the isovalue between cold and hot, the voxels up
\* to the last hot slab are active, with four hot corners each: enough
\* active voxels for several chunks of the vertex-count dispatch, and, at
\* the full extent, more vertices than a buffer of the device can hold.
LargeVolumes ==
    { [dims |-> LargeVolumeDims,
       hot |-> SlabSamples(LargeVolumeDims,
                           { x \in 0..(LargeVolumeDims[1] - 1) : x % 2 = 1 /\ x < k })] :
        k \in LargeExtents }

\* MarchingCubes.create: the case table, the volume-info block holding the
\* dims, and the flag buffer sized to the scan alignment; #markActiveBG
\* binds the flag buffer whole (lines 157-167), which the device rejects
\* when the buffer is empty.
InstanceCreated ==
    /\ buffers =
          (triCaseTable :> [size |-> 256 * 16 * 4, data |-> << >>, owner |-> 0, users |-> {},
                             destroyed |-> FALSE, valid |-> TRUE])
          @@ (volumeInfo :> [size |-> VolumeInfoBytes,
                 data |-> << volume.dims[1], volume.dims[2], volume.dims[3], 0, 0, 0, 0, 0 >>,
                 owner |-> 0, users |-> {}, destroyed |-> FALSE, valid |-> TRUE])
          @@ (voxelActive :> NewBuffer(getAlignedSize(dualGridNumVoxels(volume.dims)) * 4, 0))
    /\ queue = << >>
    /\ calls = << >>
    /\ deviceErrors =
          (IF getAlignedSize(dualGridNumVoxels(volume.dims)) * 4 > 0
           THEN {} ELSE { << 0, "createBindGroup157" >> })

\* An instance created on one of the small volumes.
Init ==
    /\ volume \in Volumes
    /\ InstanceCreated

\* An instance created on any volume handed to MarchingCubes.create, the
\* flat ones included: create() takes the Volume as it is.
InitAnyVolume ==
    /\ volume \in Volumes \cup FlatVolumes
    /\ InstanceCreated

\* An instance created on one of the long volumes.
InitLarge ==
    /\ volume \in LargeVolumes
    /\ InstanceCreated

\* ---------------------------------------------------- WebGPU validation
\* copyBufferToBuffer: the copied range lies inside both buffers.
CopyValid(heap, cp) ==
    /\ heap[cp.src].valid /\ heap[cp.dst].valid
    /\ cp.srcOff + cp.size <= heap[cp.src].size
    /\ cp.dstOff + cp.size <= heap[cp.dst].size

\* createBindGroup, a buffer binding: the bound part lies inside the buffer
\* and is not empty (size 0 in the call means "to the end of the buffer").
BindingValid(heap, b, size) ==
    LET bound == IF size = 0 THEN heap[b].size ELSE size
    IN  heap[b].valid /\ bound > 0 /\ bound <= heap[b].size

\* ------------------------------------------------------------ host side
\* Variant of pcAfter: computeVertexOffsets goes straight to its scan,
\* without the await of the vertex-count pass.
pcAfterSkipCount(pc) ==
    CASE pc = "await342" -> "await345"
      [] pc = "await345" -> "await353"
      [] pc = "await353" -> "await377"
      [] pc = "await377" -> "await379"
      [] pc = "await379" -> "await380"
      [] pc = "await380" -> "await409"
      [] pc = "await409" -> "await411"
      [] pc = "await411" -> "await481"
      [] pc = "await479" -> "await481"
      [] pc = "await481" -> "Done"
\* Variant of pcAfter: the validation readbacks are left out.
pcAfterNoReadback(pc) ==
    CASE pc = "await342" -> "await345"
      [] pc = "await345" -> "await353"
      [] pc = "await353" -> "await411"
      [] pc = "await377" -> "await379"
      [] pc = "await379" -> "await380"
      [] pc = "await380" -> "await409"
      [] pc = "await409" -> "await411"
      [] pc = "await411" -> "await479"
      [] pc = "await479" -> "await481"
      [] pc = "await481" -> "Done"
\* The order of the awaits of one computeSurface call.
pcAfter(pc) ==
    CASE pc = "await342" -> "await345"
      [] pc = "await345" -> "await353"
      [] pc = "await353" -> "await377"
      [] pc = "await377" -> "await379"
      [] pc = "await379" -> "await380"
      [] pc = "await380" -> "await409"
      [] pc = "await409" -> "await411"
      [] pc = "await411" -> "await479"
      [] pc = "await479" -> "await481"
      [] pc = "await481" -> "Done"

\* The host resumes from `await queue.onSubmittedWorkDone()` (or from a
\* readback) once everything submitted before the await has executed.
Resumable(c, pc) ==
    /\ c \in 1..Len(calls)
    /\ calls[c].pc = pc
    /\ calls[c].pending = 0

\* A fresh call record.
NewCall(iso) ==
    [ pc |-> "await342", isovalue |-> iso, pending |-> 0,
      stages |-> << "Idle" >>,
      upload |-> 0, offsets |-> 0, ids |-> 0,
      debugActive |-> 0, debugOffset |-> 0, debugBuf |-> 0,
      vertexOffsets |-> 0, pushConstants |-> 0, vertices |-> 0,
      nActive |-> -1, debugCount |-> -1, nVertices |-> -1,
      awaits |-> 0, diagAwaits |-> 0,
      flagTotal |-> -1, countTotal |-> -1,
      flagScanIn |-> << >>, countScanIn |-> << >>,
      flagsAtCompact |-> << >>,
      isoAtMark |-> -1, isoAtCount |-> -1,
      vertexWrites |-> {},
      chunks |-> << >>, countHits |-> << >>,
      drawn |-> FALSE,
      result |-> [count |-> -1, buffer |-> 0] ]

\* A command buffer is valid when its bind groups and its copies are.
CmdValid(heap, cmd) ==
    /\ cmd.bindValid
    /\ \A k \in 1..Len(cmd.copies) : CopyValid(heap, cmd.copies[k])

\* queue.submit: an invalid command buffer is rejected with a validation
\* error and none of its commands execute.
Enqueue(q, heap, cmd) == IF CmdValid(heap, cmd) THEN Append(q, cmd) ELSE q

SubmitErrors(heap, cmd, place) ==
    IF CmdValid(heap, cmd) THEN {} ELSE { << cmd.call, place >> }

\* Variant of MarkDispatchSize: partial workgroups are dropped.
MarkDispatchSizeFloor ==
    LET dg == dualGridDims(volume.dims)
    IN  << dg[1] \div MarkGroupX, dg[2] \div MarkGroupY, dg[3] \div MarkGroupZ >>
\* The classification dispatch: whole workgroups over the dual grid.
MarkDispatchSize ==
    LET dg == dualGridDims(volume.dims)
    IN  << CeilDiv(dg[1], MarkGroupX), CeilDiv(dg[2], MarkGroupY),
           CeilDiv(dg[3], MarkGroupZ) >>

\* Variant of FlagScanBuffer: the flag buffer itself is scanned.
FlagScanBufferInPlace(offsets) == voxelActive
\* The buffer handed to the flag scan: the copy of the flags (line 345).
FlagScanBuffer(offsets) == offsets

\* Variant of FlagScanCount: one element short.
FlagScanCountShort == dualGridNumVoxels(volume.dims) - 1
\* The element count handed to the flag scan (line 345).
FlagScanCount == dualGridNumVoxels(volume.dims)

\* Variant of ActiveIDsSize: sized for the worst case, not from the readback.
ActiveIDsSizeWorstCase(nActive) == dualGridNumVoxels(volume.dims) * 4
\* Bytes of the active-voxel ID buffer, from the flag scan's total (line 348).
ActiveIDsSize(nActive) == nActive * 4

\* Variant of CompactArgs: flags and offsets exchanged.
CompactArgsSwapped(offsets, ids) ==
    [ flags |-> offsets, offsets |-> voxelActive,
      out |-> ids, n |-> dualGridNumVoxels(volume.dims) ]
\* The buffers handed to compactActiveIDs: flags, offsets, output, n
\* (lines 353-356).
CompactArgs(offsets, ids) ==
    [ flags |-> voxelActive, offsets |-> offsets,
      out |-> ids, n |-> dualGridNumVoxels(volume.dims) ]

\* Variant of VertexOffsetsSize: not aligned to the scan's block size.
VertexOffsetsSizeUnaligned(count) == count * 4
\* Bytes of the vertex-count/offset buffer (line 424).
VertexOffsetsSize(count) == getAlignedSize(count) * 4

\* Bytes of the output vertex buffer: a vec3 of floats per vertex (line 491).
VertexBufferSize(count) == count * 3 * 4

\* Variant of ResultCount: activeVoxels.count is returned.
ResultCountActive(nActive, nVertices) == nActive
\* The count computeSurface returns: vertexOffsets.count (line 296).
ResultCount(nActive, nVertices) == nVertices

\* The states of the orchestrator, in their order.
StageOrder ==
    << "Idle", "IsovalueUploaded", "VoxelsClassified", "VoxelsCompacted",
       "VertexCountsComputed", "VertexOffsetsComputed", "VerticesEmitted", "Done" >>

\* The states a call reaches when it passes an await: line 342 ends the
\* classification, line 353 the compaction, line 479 the vertex counting,
\* line 481 the vertex-count scan, after which computeVertices runs and
\* computeSurface returns.
StageReached(pc) ==
    CASE pc = "await342" -> << "VoxelsClassified" >>
      [] pc = "await353" -> << "VoxelsCompacted" >>
      [] pc = "await479" -> << "VertexCountsComputed" >>
      [] pc = "await481" -> << "VertexOffsetsComputed", "VerticesEmitted", "Done" >>
      [] OTHER -> << >>

\* The awaits that belong to the validation readbacks (lines 360-416).
Diagnostic(pc) ==
    pc \in { "await377", "await379", "await380", "await409", "await411" }

\* Bookkeeping common to every resume: the await just passed is counted,
\* the states it completes are recorded, the call moves to its next await
\* and waits for everything submitted up to there (`pending` command
\* buffers are still to execute).
Passed(c, pc, q) ==
    [ calls[c] EXCEPT
        !.pc = pcAfter(pc),
        !.pending = Len(q),
        !.stages = @ \o StageReached(pc),
        !.awaits = IF Diagnostic(pc) THEN @ ELSE @ + 1,
        !.diagAwaits = IF Diagnostic(pc) THEN @ + 1 ELSE @ ]

\* Variant of UploadCopy: the isovalue is copied to the start of the block.
UploadCopyAtZero(u) ==
    [ src |-> u, srcOff |-> 0, dst |-> volumeInfo, dstOff |-> 0, size |-> 4 ]
\* The copy uploadIsovalue encodes (line 310): 4 bytes of the staging buffer
\* to byte 16 of #volumeInfo.
UploadCopy(u) ==
    [ src |-> u, srcOff |-> 0, dst |-> volumeInfo, dstOff |-> IsovalueByteOffset,
      size |-> 4 ]

\* Variant of DebugCopyBytes: the whole source is copied.
DebugCopyBytesOfSource(dstSize, srcSize) == srcSize
\* The bytes of a debug copy of the flags or the offsets (lines 373-374):
\* the size of the debug buffer, not of the padded source.
DebugCopyBytes(dstSize, srcSize) == dstSize

\* Variant of SubmitOrder: the classification is submitted first.
SubmitOrderMarkFirst(uploadCmd, markCmd) == << markCmd, uploadCmd >>
\* The order of the first two submits of a call: uploadIsovalue (line 288)
\* submits its copy (311) before computeActiveVoxels (290) submits the
\* classification (341).
SubmitOrder(uploadCmd, markCmd) == << uploadCmd, markCmd >>

\* computeSurface up to its first await (line 342): uploadIsovalue stages
\* the isovalue and submits its copy into #volumeInfo; computeActiveVoxels
\* creates the offsets buffer and submits the classification pass followed
\* by the copy of the flags into the offsets buffer.
StartCall(iso) ==
    LET c == Len(calls) + 1
        u == BufferId(c, "upload")
        o == BufferId(c, "offsets")
        heap == buffers @@ (u :> [NewBuffer(4, c) EXCEPT !.data = << Float32(iso) >>])
                        @@ (o :> NewBuffer(buffers[voxelActive].size, c))
        uploadCmd == [ kind |-> "copy", call |-> c, bindValid |-> TRUE,
                       copies |-> << UploadCopy(u) >> ]
        markCmd == [ kind |-> "mark", call |-> c,
                     bindValid |-> BindingValid(heap, voxelActive, 0),
                     groups |-> MarkDispatchSize, flags |-> voxelActive,
                     copies |-> << [ src |-> voxelActive, srcOff |-> 0, dst |-> o,
                                     dstOff |-> 0, size |-> heap[o].size ] >> ]
        order == SubmitOrder(uploadCmd, markCmd)
        q == Enqueue(Enqueue(queue, heap, order[1]), heap, order[2])
    IN  /\ buffers' = heap
        /\ queue' = q
        /\ deviceErrors' = deviceErrors \cup SubmitErrors(heap, uploadCmd, "submit311")
                                        \cup SubmitErrors(heap, markCmd, "submit341")
        /\ calls' = Append(calls,
              [ NewCall(iso) EXCEPT !.upload = u, !.offsets = o,
                                    !.pending = Len(q),
                                    !.stages = << "Idle", "IsovalueUploaded" >> ])
        /\ UNCHANGED volume

\* The caller issues computeSurface(iso) after the previous call has
\* returned (app.ts awaits the call).
Issue(iso) ==
    /\ Len(calls) < MaxCalls
    /\ \A c \in 1..Len(calls) : ~InFlight(c)
    /\ StartCall(iso)

\* A caller issues computeSurface(iso) while an earlier call is still
\* suspended at one of its awaits: nothing in the class prevents it.
IssueOverlapping(iso) ==
    /\ Len(calls) < MaxCalls
    /\ \E c \in 1..Len(calls) : InFlight(c)
    /\ StartCall(iso)

\* Line 342 passed: the classification has executed.  Line 345: the scan of
\* the offsets buffer is started and awaited.
Resume342(c) ==
    /\ Resumable(c, "await342")
    /\ LET cmd == [ kind |-> "scan", call |-> c, bindValid |-> TRUE, copies |-> << >>,
                    buf |-> FlagScanBuffer(calls[c].offsets), n |-> FlagScanCount,
                    which |-> "flags" ]
           q == Append(queue, cmd)
       IN  /\ queue' = q
           /\ calls' = [ calls EXCEPT ![c] = Passed(c, "await342", q) ]
    /\ UNCHANGED << volume, buffers, deviceErrors >>

\* Line 345 passed: nActive is the scan's total.  Lines 347-356: the ID
\* buffer is created with nActive entries and the compaction is started and
\* awaited.
Resume345(c) ==
    /\ Resumable(c, "await345")
    /\ LET nActive == calls[c].flagTotal
           id == BufferId(c, "ids")
           args == CompactArgs(calls[c].offsets, id)
           cmd == [ kind |-> "compact", call |-> c, bindValid |-> TRUE, copies |-> << >>,
                    flags |-> args.flags, offsets |-> args.offsets,
                    out |-> args.out, n |-> args.n ]
           q == Append(queue, cmd)
       IN  /\ buffers' = buffers @@ (id :> NewBuffer(ActiveIDsSize(nActive), c))
           /\ queue' = q
           /\ calls' = [ calls EXCEPT ![c] =
                 [ Passed(c, "await345", q) EXCEPT !.nActive = nActive, !.ids = id ] ]
    /\ UNCHANGED << volume, deviceErrors >>

\* Line 353 passed: the ID list is written.  Lines 360-377: the two debug
\* buffers are created and the flags and the offsets are copied into them.
Resume353(c) ==
    /\ Resumable(c, "await353")
    /\ LET da == BufferId(c, "debugActive")
           do == BufferId(c, "debugOffset")
           bytes == dualGridNumVoxels(volume.dims) * 4
           heap == buffers @@ (da :> NewBuffer(bytes, c)) @@ (do :> NewBuffer(bytes, c))
           cmd == [ kind |-> "copy", call |-> c, bindValid |-> TRUE,
                    copies |-> << [ src |-> voxelActive, srcOff |-> 0, dst |-> da,
                                    dstOff |-> 0,
                                    size |-> DebugCopyBytes(heap[da].size,
                                                            heap[voxelActive].size) ],
                                  [ src |-> calls[c].offsets, srcOff |-> 0, dst |-> do,
                                    dstOff |-> 0,
                                    size |-> DebugCopyBytes(heap[do].size,
                                                            heap[calls[c].offsets].size) ] >> ]
           q == Enqueue(queue, heap, cmd)
       IN  /\ buffers' = heap
           /\ queue' = q
           /\ deviceErrors' = deviceErrors \cup SubmitErrors(heap, cmd, "submit376")
           /\ calls' = [ calls EXCEPT ![c] =
                 [ Passed(c, "await353", q) EXCEPT !.debugActive = da, !.debugOffset = do ] ]
    /\ UNCHANGED volume

\* Lines 377, 379, 409: an await of the debug readback is passed and the
\* next one (a mapAsync) is entered.
ResumeMap(c) ==
    /\ \E pc \in { "await377", "await379", "await409" } :
          /\ Resumable(c, pc)
          /\ calls' = [ calls EXCEPT ![c] = Passed(c, pc, queue) ]
    /\ UNCHANGED << volume, buffers, queue, deviceErrors >>

\* Line 380 passed: both debug buffers are mapped.  Lines 382-409: the
\* nonzero flags are counted, and the ID list is copied into a third debug
\* buffer.
Resume380(c) ==
    /\ Resumable(c, "await380")
    /\ LET activeVoxels == buffers[calls[c].debugActive].data
           db == BufferId(c, "debugBuf")
           heap == buffers @@ (db :> NewBuffer(calls[c].nActive * 4, c))
           cmd == [ kind |-> "copy", call |-> c, bindValid |-> TRUE,
                    copies |-> << [ src |-> calls[c].ids, srcOff |-> 0, dst |-> db,
                                    dstOff |-> 0, size |-> heap[calls[c].ids].size ] >> ]
           q == Enqueue(queue, heap, cmd)
       IN  /\ buffers' = heap
           /\ queue' = q
           /\ deviceErrors' = deviceErrors \cup SubmitErrors(heap, cmd, "submit408")
           /\ calls' = [ calls EXCEPT ![c] =
                 [ Passed(c, "await380", q) EXCEPT
                     !.debugCount = Cardinality({ i \in 1..Len(activeVoxels) :
                                                    activeVoxels[i] # 0 }),
                     !.debugBuf = db ] ]
    /\ UNCHANGED volume

\* Line 411 passed: computeActiveVoxels returns.  computeVertexOffsets up
\* to its await (line 479): the count buffer, the bind group over the case
\* table, the ID list and the count buffer, the push constants and their
\* bind group, and the chunked vertex-count pass.
Resume411(c) ==
    /\ Resumable(c, "await411")
    /\ LET count == calls[c].nActive
           vo == BufferId(c, "vertexOffsets")
           pcb == BufferId(c, "pushConstants")
           heap == buffers
                     @@ (vo :> NewBuffer(VertexOffsetsSize(count), c))
                     @@ (pcb :> [ NewBuffer(pushConstantsBufferSize(
                                               CeilDiv(count, CountGroupSize)), c)
                                    EXCEPT !.data = << >> ])
           bindOK == /\ BindingValid(heap, triCaseTable, 0)
                     /\ BindingValid(heap, calls[c].ids, 0)
                     /\ BindingValid(heap, vo, 0)
           pushOK == BindingValid(heap, pcb, PushConstantBindSize)
           chunks == ChunkLoop(CeilDiv(count, CountGroupSize))
           offsetsOK == \A k \in 1..Len(chunks) :
                           chunks[k].offset + PushConstantBindSize <= heap[pcb].size
           cmd == [ kind |-> "numVerts", call |-> c,
                    bindValid |-> bindOK /\ pushOK /\ offsetsOK,
                    copies |-> << >>, ids |-> calls[c].ids, out |-> vo, count |-> count,
                    dispatches |-> chunks ]
           q == Enqueue(queue, heap, cmd)
       IN  /\ buffers' = heap
           /\ queue' = q
           /\ deviceErrors' = deviceErrors
                 \cup (IF bindOK THEN {} ELSE { << c, "createBindGroup428" >> })
                 \cup (IF pushOK THEN {} ELSE { << c, "createBindGroup456" >> })
                 \cup SubmitErrors(heap, cmd, "submit478")
           /\ calls' = [ calls EXCEPT ![c] =
                 [ Passed(c, "await411", q) EXCEPT !.vertexOffsets = vo, !.pushConstants = pcb,
                                                   !.chunks = chunks ] ]
    /\ UNCHANGED volume

\* Line 479 passed: the vertex counts are written.  Line 481: the scan of
\* the count buffer is started and awaited.
Resume479(c) ==
    /\ Resumable(c, "await479")
    /\ LET cmd == [ kind |-> "scan", call |-> c, bindValid |-> TRUE, copies |-> << >>,
                    buf |-> calls[c].vertexOffsets, n |-> calls[c].nActive,
                    which |-> "counts" ]
           q == Append(queue, cmd)
       IN  /\ queue' = q
           /\ calls' = [ calls EXCEPT ![c] = Passed(c, "await479", q) ]
    /\ UNCHANGED << volume, buffers, deviceErrors >>

\* Line 481 passed: nVertices is the scan's total and computeVertexOffsets
\* returns.  computeVertices (lines 487-496) creates the vertex buffer and
\* returns it without dispatching anything; computeSurface returns
\* (vertexOffsets.count, vertices), whether or not the buffer is valid.
Resume481(c) ==
    /\ Resumable(c, "await481")
    /\ LET nVertices == calls[c].countTotal
           v == BufferId(c, "vertices")
       IN  /\ buffers' = buffers @@ (v :> NewBuffer(VertexBufferSize(nVertices), c))
           /\ deviceErrors' = deviceErrors \cup
                 (IF NewBuffer(VertexBufferSize(nVertices), c).valid
                  THEN {} ELSE { << c, "createBuffer490" >> })
           /\ calls' = [ calls EXCEPT ![c] =
                 [ Passed(c, "await481", queue) EXCEPT
                     !.nVertices = nVertices, !.vertices = v,
                     !.result = [ count |-> ResultCount(calls[c].nActive, nVertices),
                                  buffer |-> v ] ] ]
    /\ UNCHANGED << volume, queue >>

\* The bytes of the vertex buffer a draw of `count` vertices reads: the last
\* vertex starts at (count - 1) * arrayStride and its attribute ends
\* VertexAttributeBytes later.
DrawBytes(count) ==
    IF count = 0 THEN 0 ELSE (count - 1) * VertexStride + VertexAttributeBytes

\* The render loop of app.ts (lines 189-192) draws result.count vertices
\* from result.buffer, once computeSurface has returned (line 39 awaits
\* it); a frame is not rendered while a call is suspended.  The device
\* validates the draw against the bound buffer: a draw that reaches beyond
\* it is rejected with a validation error.
Draw(c) ==
    /\ c \in 1..Len(calls)
    /\ calls[c].pc = "Done"
    /\ \A d \in 1..Len(calls) : ~InFlight(d)
    /\ ~calls[c].drawn
    /\ LET r == calls[c].result
           ok == buffers[r.buffer].valid /\ DrawBytes(r.count) <= buffers[r.buffer].size
       IN  deviceErrors' = deviceErrors \cup (IF ok THEN {} ELSE { << c, "draw192" >> })
    /\ calls' = [ calls EXCEPT ![c].drawn = TRUE ]
    /\ UNCHANGED << volume, buffers, queue >>

\* ---------------------------------------------------------- device side
\* One copyBufferToBuffer, word by word.
ApplyCopy(heap, cp, c) ==
    LET from == heap[cp.src].data
        so == cp.srcOff \div 4
        do == cp.dstOff \div 4
        w == cp.size \div 4
        marked == [ heap EXCEPT ![cp.src].users = @ \cup {c} ]
    IN  [ marked EXCEPT
            ![cp.dst].data = [ i \in 1..Len(@) |->
                                 IF i > do /\ i <= do + w THEN from[i - do + so] ELSE @[i] ],
            ![cp.dst].users = @ \cup {c} ]

RECURSIVE ApplyCopies(_, _, _)
\* The copies of a command buffer, in order.
ApplyCopies(heap, copies, c) ==
    IF copies = << >> THEN heap
    ELSE ApplyCopies(ApplyCopy(heap, Head(copies), c), Tail(copies), c)

\* Whether the classification dispatch of `groups` workgroups has an
\* invocation for voxel i.
MarkCovered(dims, groups, i) ==
    LET p == VoxelCoord(dims, i)
    IN  /\ p[1] < groups[1] * MarkGroupX
        /\ p[2] < groups[2] * MarkGroupY
        /\ p[3] < groups[3] * MarkGroupZ

\* The flag buffer after the classification pass: every invocation inside
\* the dual grid writes its voxel's flag, 1 or 0; invocations outside the
\* grid write nothing.
MarkFlags(data, dims, groups, iso) ==
    [ i \in 1..Len(data) |->
        IF i - 1 < dualGridNumVoxels(dims) /\ MarkCovered(dims, groups, i - 1)
        THEN (IF VoxelActive(volume, dims, i - 1, iso) THEN 1 ELSE 0)
        ELSE data[i] ]

\* The count buffer after the vertex-count pass: every invocation of the
\* dispatches whose index is below count writes its voxel's vertex count.
CountVerts(ids, out, dims, count, iso, dispatches) ==
    [ i \in 1..Len(out) |->
        IF CountHits(dispatches, i - 1) > 0 /\ i - 1 < count /\ i <= Len(ids)
        THEN CaseVertexCount(CornerConfig(volume, dims, ids[i], iso))
        ELSE out[i] ]

\* The head of the queue has executed: every await has one command buffer
\* less to wait for.
Executed(cs) ==
    /\ queue' = Tail(queue)
    /\ calls' = [ c \in 1..Len(cs) |->
                    [ cs[c] EXCEPT !.pending = IF @ > 0 THEN @ - 1 ELSE 0 ] ]

\* The device executes a command buffer that only copies (the isovalue
\* upload, the debug readbacks).
ExecCopy ==
    /\ queue # << >>
    /\ Head(queue).kind = "copy"
    /\ buffers' = ApplyCopies(buffers, Head(queue).copies, Head(queue).call)
    /\ Executed(calls)
    /\ UNCHANGED << volume, deviceErrors >>

\* The device executes the classification pass and the copy of the flags
\* into the offsets buffer that follows it in the same command buffer.
ExecMark ==
    /\ queue # << >>
    /\ Head(queue).kind = "mark"
    /\ LET cmd == Head(queue)
           c == cmd.call
           iso == buffers[volumeInfo].data[IsovalueWord]
           heap == [ buffers EXCEPT
                       ![cmd.flags].data = MarkFlags(@, InfoDims, cmd.groups, iso),
                       ![cmd.flags].users = @ \cup {c},
                       ![volumeInfo].users = @ \cup {c} ]
       IN  /\ buffers' = ApplyCopies(heap, cmd.copies, c)
           /\ Executed([ calls EXCEPT ![c].isoAtMark = iso ])
    /\ UNCHANGED << volume, deviceErrors >>

\* The device executes ExclusiveScan.scan: the buffer is scanned in place
\* and the total is read back.
ExecScan ==
    /\ queue # << >>
    /\ Head(queue).kind = "scan"
    /\ LET cmd == Head(queue)
           c == cmd.call
           data == buffers[cmd.buf].data
       IN  /\ buffers' = [ buffers EXCEPT ![cmd.buf].data = ScanData(data, cmd.n),
                                          ![cmd.buf].users = @ \cup {c} ]
           /\ Executed(IF cmd.which = "flags"
                       THEN [ calls EXCEPT ![c].flagScanIn = data,
                                           ![c].flagTotal = ScanTotal(data, cmd.n) ]
                       ELSE [ calls EXCEPT ![c].countScanIn = data,
                                           ![c].countTotal = ScanTotal(data, cmd.n) ])
    /\ UNCHANGED << volume, deviceErrors >>

\* The device executes the compaction scatter.
ExecCompact ==
    /\ queue # << >>
    /\ Head(queue).kind = "compact"
    /\ LET cmd == Head(queue)
           c == cmd.call
       IN  /\ \E d \in CompactOutcomes(buffers[cmd.flags].data, buffers[cmd.offsets].data,
                                       buffers[cmd.out].data, cmd.n) :
                 buffers' = [ buffers EXCEPT ![cmd.out].data = d,
                                             ![cmd.out].users = @ \cup {c},
                                             ![cmd.flags].users = @ \cup {c},
                                             ![cmd.offsets].users = @ \cup {c} ]
           /\ Executed([ calls EXCEPT ![c].flagsAtCompact = buffers[cmd.flags].data ])
    /\ UNCHANGED << volume, deviceErrors >>

\* The device executes the chunked vertex-count pass.
ExecNumVerts ==
    /\ queue # << >>
    /\ Head(queue).kind = "numVerts"
    /\ LET cmd == Head(queue)
           c == cmd.call
           iso == buffers[volumeInfo].data[IsovalueWord]
       IN  /\ buffers' = [ buffers EXCEPT
                 ![cmd.out].data = CountVerts(buffers[cmd.ids].data, @, InfoDims,
                                              cmd.count, iso, cmd.dispatches),
                 ![cmd.out].users = @ \cup {c},
                 ![cmd.ids].users = @ \cup {c},
                 ![volumeInfo].users = @ \cup {c} ]
           /\ Executed([ calls EXCEPT
                 ![c].isoAtCount = iso,
                 ![c].countHits = [ i \in 1..cmd.count |->
                                      CountHits(cmd.dispatches, i - 1) ] ])
    /\ UNCHANGED << volume, deviceErrors >>

Device == ExecCopy \/ ExecMark \/ ExecScan \/ ExecCompact \/ ExecNumVerts

Host(c) ==
    \/ Resume342(c)
    \/ Resume345(c)
    \/ Resume353(c)
    \/ ResumeMap(c)
    \/ Resume380(c)
    \/ Resume411(c)
    \/ Resume479(c)
    \/ Resume481(c)

\* One caller that awaits each computeSurface call, as app.ts does.
Next ==
    \/ \E iso \in Isovalues : Issue(iso)
    \/ \E c \in 1..MaxCalls : Host(c)
    \/ \E c \in 1..MaxCalls : Draw(c)
    \/ Device

Spec == Init /\ [][Next]_vars

\* A caller that may also issue a call while another is suspended.
NextOverlapping ==
    \/ Next
    \/ \E iso \in Isovalues : IssueOverlapping(iso)

SpecOverlapping == Init /\ [][NextOverlapping]_vars

\* The sequential caller on any volume.
SpecAnyVolume == InitAnyVolume /\ [][Next]_vars

\* The sequential caller on the long volumes.
SpecLarge == InitLarge /\ [][Next]_vars

\* ----------------------------------------------------------------- claims
CallIds == 1..Len(calls)

Returned(c) == calls[c].pc = "Done"

\* The flag scan, the compaction, the vertex-count scan of call c have
\* executed on the device.
FlagScanDone(c) == calls[c].flagTotal # -1
Compacted(c) == calls[c].flagsAtCompact # << >>
CountScanDone(c) == calls[c].countTotal # -1

\* The compaction of call c has executed and the host has passed line 353.
PastCompaction(c) == calls[c].pc \notin { "await342", "await345", "await353" }

NumVoxels == dualGridNumVoxels(volume.dims)

\* C1: every buffer handed to ExclusiveScan.scan with length n holds, after
\* the scan, at index i the sum of the original elements below i, and the
\* returned total is the sum of all n original elements: for the copy of
\* the flag buffer with n = dualGridNumVoxels (the scan's input is the flag
\* buffer's contents) and for the vertex-count buffer with n = nActive; and
\* the debug readback counts as many nonzero flags as the flag scan returned.
C1_ScanIsExclusivePrefixSum ==
    \A c \in CallIds :
        /\ FlagScanDone(c) =>
              /\ \A i \in 0..(NumVoxels - 1) :
                    buffers[calls[c].offsets].data[i + 1] = SeqSum(calls[c].flagScanIn, i)
              /\ calls[c].flagTotal = SeqSum(calls[c].flagScanIn, NumVoxels)
              /\ calls[c].flagTotal =
                    Cardinality({ i \in 1..NumVoxels : calls[c].flagScanIn[i] # 0 })
              /\ ~Returned(c) => calls[c].flagScanIn = buffers[voxelActive].data
        /\ CountScanDone(c) =>
              /\ \A i \in 0..(calls[c].nActive - 1) :
                    buffers[calls[c].vertexOffsets].data[i + 1]
                       = SeqSum(calls[c].countScanIn, i)
              /\ calls[c].countTotal = SeqSum(calls[c].countScanIn, calls[c].nActive)
        /\ calls[c].debugCount # -1 => calls[c].debugCount = calls[c].nActive

\* C1 witness: a call whose flag scan found two active voxels and whose
\* vertex-count scan summed a nonzero number of vertices, debug count taken.
C1_Witness ==
    \E c \in CallIds :
        /\ calls[c].nActive = 2
        /\ calls[c].debugCount = 2
        /\ calls[c].countTotal > 3

\* The voxel indices listed in an ID buffer.
Listed(ids) == { ids[k] : k \in 1..Len(ids) }

\* C2: after the compaction the ID buffer has exactly nActive entries, every
\* voxel i with a nonzero flag is at entry offsets[i], the list is strictly
\* increasing, and setting flags at the listed indices reproduces the flag
\* buffer.
C2_CompactionIsExact ==
    \A c \in CallIds :
        PastCompaction(c) =>
            LET ids == buffers[calls[c].ids].data
                flags == calls[c].flagsAtCompact
                offsets == buffers[calls[c].offsets].data
            IN  /\ Len(ids) = calls[c].nActive
                /\ \A i \in 0..(NumVoxels - 1) :
                      flags[i + 1] # 0 => ids[offsets[i + 1] + 1] = i
                /\ \A k \in 1..(Len(ids) - 1) : ids[k] < ids[k + 1]
                /\ \A i \in 0..(NumVoxels - 1) :
                      flags[i + 1] = (IF i \in Listed(ids) THEN 1 ELSE 0)
                /\ ~Returned(c) => flags = buffers[voxelActive].data

\* C2 witness: the compaction has produced the list <<1, 2>>: voxel 0 is
\* inactive, so the active voxels are moved down by one slot.
C2_Witness ==
    \E c \in CallIds :
        /\ PastCompaction(c)
        /\ buffers[calls[c].ids].data = << 1, 2 >>

IsPrefix(s, t) == Len(s) <= Len(t) /\ s = SubSeq(t, 1, Len(s))

C4_EveryVertexWrittenOnce ==
    \A c \in CallIds :
        Returned(c) =>
            \A k \in 0..(calls[c].result.count - 1) :
                Cardinality({ w \in calls[c].vertexWrites : w[1] = k }) = 1

RECURSIVE VertexSum(_, _, _)
\* Sum of the case-table vertex counts of the first k listed voxels.
VertexSum(ids, k, iso) ==
    IF k = 0 THEN 0
    ELSE CaseVertexCount(CornerConfig(volume, volume.dims, ids[k], iso))
         + VertexSum(ids, k - 1, iso)

NoVoxelStraddles(iso) ==
    \A i \in 0..(NumVoxels - 1) : ~VoxelActive(volume, volume.dims, i, iso)

\* C6: when no voxel straddles the isovalue, computeSurface completes with
\* an active count of 0 and a vertex count of 0 and the device raises no
\* error for any step of the call.
C6_EmptySurfaceWithoutErrors ==
    \A c \in CallIds :
        (Returned(c) /\ NoVoxelStraddles(calls[c].isovalue)) =>
            /\ calls[c].nActive = 0
            /\ calls[c].result.count = 0
            /\ \A e \in deviceErrors : e[1] # c

\* C7: two computeSurface calls never overlap, so that every call's
\* classification and vertex counting read that call's isovalue and its
\* compaction reads the flags its own scan has seen.
C7_CallsNeverOverlap ==
    /\ Cardinality({ c \in CallIds : InFlight(c) }) <= 1
    /\ \A c \in CallIds :
          /\ calls[c].isoAtMark \in { -1, Float32(calls[c].isovalue) }
          /\ calls[c].isoAtCount \in { -1, Float32(calls[c].isovalue) }
          /\ Compacted(c) => calls[c].flagsAtCompact = calls[c].flagScanIn

\* C8: a data-sized buffer exists only once the readback that gives its
\* size has completed, and has that size: the ID buffer after the flag
\* scan, the count buffer after the active count is known, the vertex
\* buffer after the vertex-count scan; and a stage has executed only if the
\* stage producing its input has: the scan after the classification, the
\* compaction after the scan, the vertex counting after the compaction, the
\* vertex-count scan after the vertex counting.
C8_AllocationAfterReadback ==
    \A c \in CallIds :
        /\ calls[c].ids # 0 =>
              /\ FlagScanDone(c)
              /\ buffers[calls[c].ids].size = calls[c].flagTotal * 4
        /\ calls[c].vertexOffsets # 0 =>
              /\ FlagScanDone(c)
              /\ buffers[calls[c].vertexOffsets].size
                    = getAlignedSize(calls[c].flagTotal) * 4
        /\ calls[c].vertices # 0 =>
              /\ CountScanDone(c)
              /\ buffers[calls[c].vertices].size = calls[c].countTotal * 12
        /\ FlagScanDone(c) => calls[c].isoAtMark # -1
        /\ Compacted(c) => FlagScanDone(c)
        /\ calls[c].isoAtCount # -1 => Compacted(c)
        /\ CountScanDone(c) => (calls[c].isoAtCount # -1 \/ calls[c].flagTotal = 0)

\* C8 witness: all three data-sized buffers of a call exist, none empty.
C8_Witness ==
    \E c \in CallIds :
        /\ calls[c].vertices # 0
        /\ buffers[calls[c].ids].size = 8
        /\ buffers[calls[c].vertexOffsets].size = 8
        /\ buffers[calls[c].vertices].size > 0

\* C9 (as stated): per call the host awaits the device once after
\* classification and flag scan and once after the vertex-count scan, apart
\* from the diagnostic readbacks.
C9_TwoAwaitsBesidesDiagnostics ==
    \A c \in CallIds : Returned(c) => calls[c].awaits = 2

\* C9 (amended): per call the host passes five awaits on the main path
\* (lines 342, 345, 353, 479, 481) and, unconditionally, five awaits of the
\* diagnostic readbacks (lines 377, 379, 380, 409, 411); before the call
\* returns the counts never exceed these.
C9_TenAwaits ==
    \A c \in CallIds :
        /\ calls[c].awaits <= 5
        /\ calls[c].diagAwaits <= 5
        /\ Returned(c) => (calls[c].awaits = 5 /\ calls[c].diagAwaits = 5)

\* C9 witness: a call has returned.
C9_Witness ==
    \E c \in CallIds : Returned(c) /\ calls[c].awaits + calls[c].diagAwaits = 10

\* The buffers of the instance, created once by create().
InstanceBuffers == { triCaseTable, volumeInfo, voxelActive }

\* C10 (as stated): every intermediate buffer a call uses, the flag buffer
\* included, is created by that call, and no such buffer is used by two
\* calls.
C10_NoBufferSharedByCalls ==
    \A b \in (DOMAIN buffers) \ { triCaseTable, volumeInfo } :
        buffers[b].users \subseteq { buffers[b].owner }

\* C10 (amended): the flag buffer is created once by create() and used by
\* every call; every other intermediate buffer (offsets, ID list, vertex
\* counts/offsets, staging, debug and vertex buffers) is created by the call
\* that uses it and is used by no other call.
C10_OnlyFlagBufferShared ==
    /\ \A b \in (DOMAIN buffers) \ InstanceBuffers :
          /\ buffers[b].owner \in CallIds
          /\ buffers[b].users \subseteq { buffers[b].owner }
    /\ buffers[voxelActive].owner = 0
    /\ \A c \in CallIds :
          /\ calls[c].isoAtMark # -1 => c \in buffers[voxelActive].users
          /\ \A r \in { calls[c].upload, calls[c].offsets, calls[c].ids,
                        calls[c].debugActive, calls[c].debugOffset, calls[c].debugBuf,
                        calls[c].vertexOffsets, calls[c].pushConstants,
                        calls[c].vertices } \ {0} :
                buffers[r].owner = c

\* C10 witness: two calls with different isovalues have both written the
\* flag buffer, and the second has run its scan and compaction on its own
\* buffers.
C10_Witness ==
    /\ Len(calls) = 2
    /\ calls[1].isovalue # calls[2].isovalue
    /\ buffers[voxelActive].users = { 1, 2 }
    /\ PastCompaction(2)
    /\ buffers[calls[2].ids].users = { 2 }

\* The buffers call c created, the returned vertex buffer excepted.
OwnedIntermediates(c) ==
    { b \in DOMAIN buffers : buffers[b].owner = c /\ b # calls[c].result.buffer }

\* C11: when a computeSurface call has ended, every intermediate buffer it
\* owned (staging, flag offsets, ID list, debug buffers, vertex
\* counts/offsets, push constants) has been released; only the returned
\* vertex buffer survives.
C11_IntermediateBuffersReleased ==
    \A c \in CallIds :
        Returned(c) => \A b \in OwnedIntermediates(c) : buffers[b].destroyed

\* C12: when a stage of computeSurface fails (a buffer the call requests
\* exceeds the device's allocation limit), the whole call fails: it returns
\* no MarchingCubesResult.
C12_FailedCallReturnsNoResult ==
    \A c \in CallIds :
        (\E b \in DOMAIN buffers : buffers[b].owner = c /\ ~buffers[b].valid)
            => calls[c].result.buffer = 0

\* Some axis of the dual grid has no voxel.
Malformed(dims) == \E a \in 1..3 : dualGridDims(dims)[a] < 1

\* C13: a volume with a dual-grid axis < 1 is rejected before the pipeline
\* starts: no flag buffer is allocated for it and no classification pass
\* is encoded and submitted for it.
C13_MalformedVolumeRejected ==
    Malformed(volume.dims) =>
        /\ voxelActive \notin DOMAIN buffers
        /\ \A c \in CallIds : calls[c].stages = << "Idle" >>

\* The vertex-count pass of call c has been encoded (line 478 passed).
CountPassEncoded(c) == calls[c].vertexOffsets # 0

\* C14: for W = ceil(activeCount / 32) workgroups the chunk loop issues
\* numDispatches() dispatches; all hold the per-dispatch cap but the last,
\* which holds between 1 and the cap; their sizes sum to W; dispatch i is
\* bound at byte offset i * stride and starts at the workgroup where the
\* one before ended; and once the pass has executed every active-voxel
\* index below activeCount has been processed by exactly one invocation,
\* while no entry at or beyond activeCount of the count buffer is written.
C14_ChunksCoverExactly ==
    \A c \in CallIds :
        CountPassEncoded(c) =>
            LET W == CeilDiv(calls[c].nActive, CountGroupSize)
                ch == calls[c].chunks
                groups == [ k \in 1..Len(ch) |-> ch[k].groups ]
            IN  /\ Len(ch) = CeilDiv(W, MaxDispatchGroups)
                /\ \A k \in 1..(Len(ch) - 1) : ch[k].groups = MaxDispatchGroups
                /\ Len(ch) > 0 =>
                      (ch[Len(ch)].groups >= 1 /\ ch[Len(ch)].groups <= MaxDispatchGroups)
                /\ SeqSum(groups, Len(ch)) = W
                /\ \A k \in 1..Len(ch) :
                      /\ ch[k].offset = (k - 1) * PushConstantStride
                      /\ ChunkBase(ch[k].offset) = SeqSum(groups, k - 1)
                /\ calls[c].isoAtCount # -1 =>
                      /\ Len(calls[c].countHits) = calls[c].nActive
                      /\ \A i \in 1..calls[c].nActive : calls[c].countHits[i] = 1
                /\ CountScanDone(c) =>
                      \A i \in (calls[c].nActive + 1)..Len(calls[c].countScanIn) :
                          calls[c].countScanIn[i] = 0

\* C14 witness: 130 active voxels, five workgroups in three dispatches of
\* 2, 2 and 1, executed.
C14_Witness ==
    \E c \in CallIds :
        /\ calls[c].nActive = 130
        /\ Len(calls[c].chunks) = 3
        /\ calls[c].chunks[3].groups = 1
        /\ calls[c].isoAtCount # -1
        /\ calls[c].countHits[130] = 1

\* The classification pass of call c has executed.
Classified(c) == calls[c].isoAtMark # -1

\* The flag the classification gives voxel i under isovalue iso: 1 iff some
\* corner is above and some corner is below.
StraddleFlag(i, iso) == IF VoxelActive(volume, volume.dims, i, iso) THEN 1 ELSE 0

\* C15: after the classification pass of a computeSurface(isovalue) call,
\* and until the call returns, the flag of every dual-grid voxel is 1 if
\* at least one of its 8 corners is above and at least one is below that
\* call's isovalue, and 0 otherwise; for every call of a sequence.
C15_FlagIffStraddles ==
    \A c \in CallIds :
        (Classified(c) /\ ~Returned(c)) =>
            \A i \in 0..(NumVoxels - 1) :
                buffers[voxelActive].data[i + 1] = StraddleFlag(i, calls[c].isovalue)

\* C15 witness: the second call has classified, and a voxel that was
\* active under the first call's isovalue now has flag 0.
C15_Witness ==
    /\ Len(calls) = 2
    /\ Classified(2) /\ ~Returned(2)
    /\ \E i \in 0..(NumVoxels - 1) :
          /\ StraddleFlag(i, calls[1].isovalue) = 1
          /\ buffers[voxelActive].data[i + 1] = 0

\* The buffer contents `data` are a valid input of scan(buffer, n).
Padded(data, n) ==
    /\ Len(data) >= getAlignedSize(n)
    /\ \A i \in (n + 1)..getAlignedSize(n) : data[i] = 0

\* C16: at every ExclusiveScan.scan(buffer, n) of the pipeline the buffer
\* has at least align(n) elements and those at indices [n, align(n)) are
\* 0: for the copy of the flag buffer with n = dualGridNumVoxels and for
\* the vertex-count buffer with n = nActive; and the flag buffer itself has
\* this shape at all times, after any number of calls.
C16_ScanInputPadded ==
    /\ Padded(buffers[voxelActive].data, NumVoxels)
    /\ \A c \in CallIds :
          /\ FlagScanDone(c) => Padded(calls[c].flagScanIn, FlagScanCount)
          /\ CountScanDone(c) => Padded(calls[c].countScanIn, calls[c].nActive)

\* C16 witness: the second call has run both scans on the three-voxel
\* volume, whose flag buffer has one padding element, with an odd number
\* of active voxels, so that the count buffer has one too.
C16_Witness ==
    /\ Len(calls) = 2
    /\ NumVoxels = 3
    /\ Len(calls[2].flagScanIn) = 4
    /\ CountScanDone(2)
    /\ calls[2].nActive = 3
    /\ Len(calls[2].countScanIn) = 4
    /\ calls[1].nActive > 0

IsUploadOf(cmd, c) ==
    /\ cmd.kind = "copy"
    /\ cmd.call = c
    /\ cmd.copies[1].src = calls[c].upload
    /\ cmd.copies[1].dst = volumeInfo

C18_ScanLeavesFlagsIntact ==
    \A c \in CallIds :
        /\ (FlagScanDone(c) /\ ~Returned(c)) =>
              buffers[voxelActive].data = calls[c].flagScanIn
        /\ Compacted(c) =>
              /\ calls[c].flagsAtCompact = calls[c].flagScanIn
              /\ \A i \in 1..NumVoxels : calls[c].flagsAtCompact[i] \in {0, 1}
              /\ \A i \in 0..(NumVoxels - 1) :
                    buffers[calls[c].offsets].data[i + 1]
                       = SeqSum(calls[c].flagsAtCompact, i)

\* C18 witness: a compaction has run on three raised flags, whose scan
\* (0, 1, 2) differs from them.
C18_Witness ==
    \E c \in CallIds :
        /\ Compacted(c)
        /\ NumVoxels = 3
        /\ \A i \in 1..3 : calls[c].flagsAtCompact[i] = 1
        /\ buffers[calls[c].offsets].data[3] = 2
        /\ buffers[voxelActive].data[3] = 1

\* C19: the draw of result.count vertices reads only bytes inside the
\* returned vertex buffer: count * stride <= buffer size.
C19_DrawInsideVertexBuffer ==
    \A c \in CallIds :
        calls[c].drawn =>
            /\ calls[c].result.count * VertexStride
                  <= buffers[calls[c].result.buffer].size
            /\ << c, "draw192" >> \notin deviceErrors

\* The volume-info block but for its isovalue word: the dims in the first
\* three words, as create() wrote them, and zeros.
InfoBlockIntact ==
    /\ buffers[volumeInfo].size = VolumeInfoBytes
    /\ Len(buffers[volumeInfo].data) = 8
    /\ \A a \in 1..3 : buffers[volumeInfo].data[a] = volume.dims[a]
    /\ \A w \in { 4, 6, 7, 8 } : buffers[volumeInfo].data[w] = 0

\* The device executes the isovalue upload at the head of the queue.
UploadExecutes ==
    /\ queue # << >>
    /\ IsUploadOf(Head(queue), Head(queue).call)
    /\ queue' = Tail(queue)

\* C20: uploadIsovalue changes only the 4 bytes at offset 16 of the
\* volume-info block: the dims at bytes 0..11 (and the unused words) are as
\* create() left them after any number of calls, and the execution of the
\* upload leaves the flag buffer and the case table as they are and sets
\* the isovalue word to the call's stored isovalue.
C20_UploadWritesIsovalueOnly ==
    /\ []InfoBlockIntact
    /\ [][UploadExecutes =>
            /\ buffers'[voxelActive] = buffers[voxelActive]
            /\ buffers'[triCaseTable] = buffers[triCaseTable]
            /\ buffers'[volumeInfo].data[IsovalueWord]
                  = Float32(calls[Head(queue).call].isovalue)]_vars

\* C20 witness: the uploads of two calls with different isovalues have
\* executed; the block holds the second one.
C20_Witness ==
    /\ Len(calls) = 2
    /\ Classified(1) /\ Classified(2)
    /\ calls[1].isoAtMark # calls[2].isoAtMark
    /\ buffers[volumeInfo].data[IsovalueWord] = calls[2].isoAtMark
    /\ buffers[voxelActive].users = { 1, 2 }

\* The submits of a call whose command buffers hold copies only.
CopySubmits == { "submit311", "submit376", "submit408" }

\* C21: every buffer-to-buffer copy computeSurface issues stays inside both
\* buffers (source offset + size <= source size, destination offset + size
\* <= destination size): every copy of a submitted command buffer does, no
\* submit of copies is rejected, the submit of the classification is
\* rejected only for its bind group, and its flags-to-offsets copy is
\* between buffers of one size.
C21_CopiesInsideBuffers ==
    /\ \A k \in 1..Len(queue) :
          \A j \in 1..Len(queue[k].copies) :
              LET cp == queue[k].copies[j]
              IN  /\ cp.srcOff + cp.size <= buffers[cp.src].size
                  /\ cp.dstOff + cp.size <= buffers[cp.dst].size
    /\ \A err \in deviceErrors : err[2] \notin CopySubmits
    /\ \A c \in CallIds :
          /\ buffers[calls[c].offsets].size = buffers[voxelActive].size
          /\ << c, "submit341" >> \in deviceErrors => buffers[voxelActive].size = 0
          /\ calls[c].debugBuf # 0 =>
                buffers[calls[c].debugBuf].size = buffers[calls[c].ids].size

\* C21 witness: a call without active voxels and a call with three have
\* both had all their copies executed, the copy of the empty ID list
\* included.
C21_Witness ==
    /\ Len(calls) = 2
    /\ calls[1].nActive = 0
    /\ calls[1].debugBuf # 0
    /\ buffers[calls[1].debugBuf].users = { 1 }
    /\ calls[2].nActive = 3
    /\ calls[2].debugBuf # 0
    /\ buffers[calls[2].debugActive].users = { 2 }
    /\ buffers[calls[2].debugBuf].users = { 2 }

====
